---- MODULE Spec2Model ----
(***************************************************************************)
(* Prefixed, time-ordered identifiers: UUIDv7 + radix codec + grammar.     *)
(* Two variants of the library are modelled side by side:                  *)
(*   - the Crockford Base32 variant (generatePrefixedId / parsePrefixedId  *)
(*     / validatePrefixedId), and                                          *)
(*   - the Base62 variant (generate / parse / validate).                   *)
(*                                                                         *)
(* Strings are sequences of one-character strings.  A BigInt is the        *)
(* sequence of its base-256 digits, most significant first, without        *)
(* leading zero digits (the empty sequence is 0n).  An error message is a  *)
(* sequence of fragments whose concatenation is the message text: every    *)
(* literal part of a template string is one fragment and every character   *)
(* of an interpolated string is one fragment.                              *)
(***************************************************************************)
EXTENDS Integers, Sequences, FiniteSets, TLC

VARIABLES
    CROCKFORD_ALPHABET,   \* Base32 variant: the alphabet table
    DECODE_MAP,           \* Base32 variant: the decode table
    BASE62_ALPHABET,      \* Base62 variant: the alphabet table
    DECODE_MAP_62,        \* Base62 variant: the decode table (DECODE_MAP there)
    held,                 \* the id the caller got from its last generate call
    call                  \* the call in progress / just returned, with its result

vars == <<CROCKFORD_ALPHABET, DECODE_MAP, BASE62_ALPHABET, DECODE_MAP_62, held, call>>

tables == <<CROCKFORD_ALPHABET, DECODE_MAP, BASE62_ALPHABET, DECODE_MAP_62>>

-----------------------------------------------------------------------------
(* Characters *)

DIGITS == <<"0","1","2","3","4","5","6","7","8","9">>

UPPER == <<"A","B","C","D","E","F","G","H","I","J","K","L","M",
           "N","O","P","Q","R","S","T","U","V","W","X","Y","Z">>

LOWER == <<"a","b","c","d","e","f","g","h","i","j","k","l","m",
           "n","o","p","q","r","s","t","u","v","w","x","y","z">>

HEX == <<"0","1","2","3","4","5","6","7","8","9","a","b","c","d","e","f">>

Range(s) == { s[i] : i \in 1..Len(s) }

\* String.prototype.toLowerCase on one character
LowerOf == [c \in Range(UPPER) |-> LOWER[CHOOSE i \in 1..Len(UPPER) : UPPER[i] = c]]

toLowerCase(c) == IF c \in DOMAIN LowerOf THEN LowerOf[c] ELSE c

\* String.prototype.toUpperCase on one character
UpperOf == [c \in Range(LOWER) |-> UPPER[CHOOSE i \in 1..Len(LOWER) : LOWER[i] = c]]

toUpperCase(c) == IF c \in DOMAIN UpperOf THEN UpperOf[c] ELSE c

\* String.prototype.repeat
repeat(c, n) == [i \in 1..n |-> c]

\* String.prototype.slice(from, to) with 0-based, end-exclusive indices
slice(s, from, to) ==
    LET f == IF from > Len(s) THEN Len(s) ELSE from
        t == IF to > Len(s) THEN Len(s) ELSE to
    IN  IF t <= f THEN <<>> ELSE SubSeq(s, f + 1, t)

\* String.prototype.indexOf / lastIndexOf for a one-character needle (0-based, -1 if absent)
indexOf(s, c) ==
    IF \E i \in 1..Len(s) : s[i] = c
    THEN (CHOOSE i \in 1..Len(s) : s[i] = c /\ \A j \in 1..(i-1) : s[j] # c) - 1
    ELSE -1

\* a slip: the first occurrence where the last one is meant
lastIndexOf_First(s, c) == indexOf(s, c)

lastIndexOf(s, c) ==
    IF \E i \in 1..Len(s) : s[i] = c
    THEN (CHOOSE i \in 1..Len(s) : s[i] = c /\ \A j \in (i+1)..Len(s) : s[j] # c) - 1
    ELSE -1

\* String.prototype.padStart(n, "0")
padStart(s, n) == repeat("0", n - Len(s)) \o s

\* uuid.replace(/-/g, "")
stripHyphens(s) == SelectSeq(s, LAMBDA c : c # "-")

-----------------------------------------------------------------------------
(* BigInt arithmetic on base-256 digit sequences *)

RECURSIVE BigNorm(_)
BigNorm(n) == IF n # <<>> /\ Head(n) = 0 THEN BigNorm(Tail(n)) ELSE n

BigIsZero(n) == n = <<>>

\* num % b and num / b for a small divisor b
RECURSIVE BigDivModStep(_, _, _, _, _)
BigDivModStep(n, b, i, rem, q) ==
    IF i > Len(n) THEN [q |-> BigNorm(q), r |-> rem]
    ELSE LET cur == rem * 256 + n[i]
         IN  BigDivModStep(n, b, i + 1, cur % b, Append(q, cur \div b))

BigDivMod(n, b) == BigDivModStep(n, b, 1, 0, <<>>)

\* result * b + BigInt(v) for small b and v
RECURSIVE BigMulAddStep(_, _, _, _, _)
BigMulAddStep(n, b, i, carry, acc) ==
    IF i = 0 THEN BigNorm(<<carry \div 256, carry % 256>> \o acc)
    ELSE LET cur == n[i] * b + carry
         IN  BigMulAddStep(n, b, i - 1, cur \div 256, <<cur % 256>> \o acc)

BigMulAdd(n, b, v) == BigMulAddStep(n, b, Len(n), v, <<>>)

\* Number((num >> (8k)n) & 0xffn): the k-th base-256 digit counted from the least significant
BigByte(n, k) == IF k < Len(n) THEN n[Len(n) - k] ELSE 0

\* b.toString(16).padStart(2, "0") for a byte b
ByteHex(b) == <<HEX[(b \div 16) + 1], HEX[(b % 16) + 1]>>

RECURSIVE BytesHex(_)
BytesHex(bs) == IF bs = <<>> THEN <<>> ELSE ByteHex(Head(bs)) \o BytesHex(Tail(bs))

\* BigInt.prototype.toString(16): lowercase hex without leading zeros, "0" for 0n
BigToString16(n) ==
    IF BigIsZero(n) THEN <<"0">>
    ELSE LET h == BytesHex(n) IN IF Head(h) = "0" THEN Tail(h) ELSE h

\* the hex digits, either case, and their values
HexCharset == Range(HEX) \cup { toUpperCase(c) : c \in Range(HEX) }

HexValOf == [c \in HexCharset |-> (CHOOSE i \in 1..16 : HEX[i] = toLowerCase(c)) - 1]

HexVal(c) == HexValOf[c]

IsHexChar(c) == c \in HexCharset

\* BigInt("0x" + hex) for a non-empty string of hex digits
RECURSIVE HexPairs(_)
HexPairs(h) ==
    IF h = <<>> THEN <<>>
    ELSE <<HexVal(h[1]) * 16 + HexVal(h[2])>> \o HexPairs(SubSeq(h, 3, Len(h)))

BigFromHex(hex) ==
    BigNorm(HexPairs(IF Len(hex) % 2 = 1 THEN <<"0">> \o hex ELSE hex))

-----------------------------------------------------------------------------
(* Results of the library's functions.  A function either returns a value   *)
(* or throws an Error with a message; calls lists, in order, the reads of   *)
(* the outside world and the internal steps the function performed.         *)

Ok(v, cs) == [ok |-> TRUE, value |-> v, error |-> <<>>, calls |-> cs]

Throw(msg, cs) == [ok |-> FALSE, value |-> <<>>, error |-> msg, calls |-> cs]

-----------------------------------------------------------------------------
(* The module-level tables *)

\* a slip: the 32 symbols taken in a row (0-9, A-V), with I, L, O and U among them
CrockfordAlphabet_Base32Hex ==
    <<"0","1","2","3","4","5","6","7","8","9","A","B","C","D","E","F",
      "G","H","I","J","K","L","M","N","O","P","Q","R","S","T","U","V">>

CrockfordAlphabet ==
    <<"0","1","2","3","4","5","6","7","8","9","A","B","C","D","E","F",
      "G","H","J","K","M","N","P","Q","R","S","T","V","W","X","Y","Z">>

\* a slip: the loop enters the alphabet's characters without their lower case
CrockfordDecodeMap_NoLowerCase ==
    LET A == CrockfordAlphabet
        loop == [c \in Range(A) |-> (CHOOSE i \in 1..Len(A) : A[i] = c) - 1]
        ones == [c \in {"I", "i", "L", "l"} |-> 1]
        zeros == [c \in {"O", "o"} |-> 0]
    IN  zeros @@ ones @@ loop

\* the initialisation loop followed by the six confusable-letter entries
CrockfordDecodeMap ==
    LET A == CrockfordAlphabet
        loop == [c \in Range(A) \cup { toLowerCase(x) : x \in Range(A) } |->
                    (CHOOSE i \in 1..Len(A) : A[i] = c \/ toLowerCase(A[i]) = c) - 1]
        ones == [c \in {"I", "i", "L", "l"} |-> 1]
        zeros == [c \in {"O", "o"} |-> 0]
    IN  zeros @@ ones @@ loop

Base62Alphabet == DIGITS \o UPPER \o LOWER

Base62DecodeMap ==
    LET A == Base62Alphabet
    IN  [c \in Range(A) |-> (CHOOSE i \in 1..Len(A) : A[i] = c) - 1]

-----------------------------------------------------------------------------
(* Radix codec, Base32 variant *)

RECURSIVE encodeCrockfordBase32Loop(_, _)
encodeCrockfordBase32Loop(num, result) ==
    IF BigIsZero(num) THEN result
    ELSE LET d == BigDivMod(num, 32)
         IN  encodeCrockfordBase32Loop(d.q, <<CROCKFORD_ALPHABET[d.r + 1]>> \o result)

\* a slip: the rendering is padded to the 26 symbols of a 128-bit value
encodeCrockfordBase32_Padded(num) ==
    padStart(encodeCrockfordBase32Loop(num, <<>>), 26)

encodeCrockfordBase32(num) ==
    IF BigIsZero(num) THEN <<"0">> ELSE encodeCrockfordBase32Loop(num, <<>>)

\* a slip: the error names the last character that is not in the table
RECURSIVE decodeCrockfordBase32LoopLast(_, _, _)
decodeCrockfordBase32LoopLast(str, i, result) ==
    IF i > Len(str) THEN Ok(result, <<>>)
    ELSE IF str[i] \notin DOMAIN DECODE_MAP
         THEN LET last == CHOOSE j \in i..Len(str) :
                              /\ str[j] \notin DOMAIN DECODE_MAP
                              /\ \A k \in (j + 1)..Len(str) : str[k] \in DOMAIN DECODE_MAP
              IN  Throw(<<"Invalid Crockford Base32 character: ", str[last]>>, <<>>)
         ELSE decodeCrockfordBase32LoopLast(str, i + 1,
                                            BigMulAdd(result, 32, DECODE_MAP[str[i]]))

RECURSIVE decodeCrockfordBase32Loop(_, _, _)
decodeCrockfordBase32Loop(str, i, result) ==
    IF i > Len(str) THEN Ok(result, <<>>)
    ELSE IF str[i] \notin DOMAIN DECODE_MAP
         THEN Throw(<<"Invalid Crockford Base32 character: ", str[i]>>, <<>>)
         ELSE decodeCrockfordBase32Loop(str, i + 1, BigMulAdd(result, 32, DECODE_MAP[str[i]]))

decodeCrockfordBase32(str) == decodeCrockfordBase32Loop(str, 1, <<>>)

(* Radix codec, Base62 variant *)

RECURSIVE decodeBase62Loop(_, _, _)
decodeBase62Loop(str, i, result) ==
    IF i > Len(str) THEN Ok(result, <<>>)
    ELSE IF str[i] \notin DOMAIN DECODE_MAP_62
         THEN Throw(<<"Invalid Base62 character: ", str[i]>>, <<>>)
         ELSE decodeBase62Loop(str, i + 1, BigMulAdd(result, 62, DECODE_MAP_62[str[i]]))

decodeBase62(str) == decodeBase62Loop(str, 1, <<>>)

\* a slip: digits appended, so the least significant digit comes first
RECURSIVE encodeBase62LoopAppend(_, _)
encodeBase62LoopAppend(num, result) ==
    IF BigIsZero(num) THEN result
    ELSE LET d == BigDivMod(num, 62)
         IN  encodeBase62LoopAppend(d.q, result \o <<BASE62_ALPHABET[d.r + 1]>>)

RECURSIVE encodeBase62Loop(_, _)
encodeBase62Loop(num, result) ==
    IF BigIsZero(num) THEN result
    ELSE LET d == BigDivMod(num, 62)
         IN  encodeBase62Loop(d.q, <<BASE62_ALPHABET[d.r + 1]>> \o result)

encodeBase62(num) ==
    IF BigIsZero(num) THEN <<"0">> ELSE encodeBase62Loop(num, <<>>)

-----------------------------------------------------------------------------
(* UUID textual form *)

\* `${u.slice(0, 8)}-${u.slice(8, 12)}-${u.slice(12, 16)}-${u.slice(16, 20)}-${u.slice(20, 32)}`
hyphenate(u) ==
    slice(u, 0, 8) \o <<"-">> \o slice(u, 8, 12) \o <<"-">> \o slice(u, 12, 16)
        \o <<"-">> \o slice(u, 16, 20) \o <<"-">> \o slice(u, 20, 32)

\* a slip: the pattern also asks for version 7 and the RFC 4122 variant
isValidUUID_Version7(uuid) ==
    /\ Len(uuid) = 36
    /\ \A i \in 1..36 :
          IF i \in {9, 14, 19, 24} THEN uuid[i] = "-" ELSE IsHexChar(uuid[i])
    /\ uuid[15] = "7"
    /\ uuid[20] \in {"8", "9", "a", "b", "A", "B"}

\* /^[0-9a-f]{8}-[0-9a-f]{4}-[0-9a-f]{4}-[0-9a-f]{4}-[0-9a-f]{12}$/i
isValidUUID(uuid) ==
    /\ Len(uuid) = 36
    /\ \A i \in 1..36 :
          IF i \in {9, 14, 19, 24} THEN uuid[i] = "-" ELSE IsHexChar(uuid[i])

uuidToCrockfordBase32(uuid) == encodeCrockfordBase32(BigFromHex(stripHyphens(uuid)))

\* a slip: the hex digits are written in upper case
crockfordBase32ToUuid_UpperHex(base32) ==
    LET num == decodeCrockfordBase32(base32)
        hex == padStart(BigToString16(num.value), 32)
    IN  IF ~num.ok THEN num
        ELSE Ok(hyphenate([i \in 1..Len(hex) |-> toUpperCase(hex[i])]), <<>>)

\* a slip: the hex digits are not padded to 32
crockfordBase32ToUuid_NoPad(base32) ==
    LET num == decodeCrockfordBase32(base32)
    IN  IF ~num.ok THEN num
        ELSE Ok(hyphenate(BigToString16(num.value)), <<>>)

crockfordBase32ToUuid(base32) ==
    LET num == decodeCrockfordBase32(base32)
    IN  IF ~num.ok THEN num
        ELSE Ok(hyphenate(padStart(BigToString16(num.value), 32)), <<>>)

uuidToBase62(uuid) == encodeBase62(BigFromHex(stripHyphens(uuid)))

\* a slip: the hex digits are not padded to 32
base62ToUUID_NoPad(base62) ==
    LET num == decodeBase62(base62)
    IN  IF ~num.ok THEN num
        ELSE Ok(hyphenate(BigToString16(num.value)), <<>>)

base62ToUUID(base62) ==
    LET num == decodeBase62(base62)
    IN  IF ~num.ok THEN num
        ELSE Ok(hyphenate(padStart(BigToString16(num.value), 32)), <<>>)

-----------------------------------------------------------------------------
(* The platform: the random source and the clock.                           *)
(* An environment env says what the global identifier crypto and the        *)
(* property globalThis.crypto evaluate to ("ok": an object with             *)
(* getRandomValues, "noGetRandomValues": an object without it,              *)
(* "undefined"), and whether globalThis exists.  r is the sequence of       *)
(* bytes the random source delivers, t the BigInt of Date.now().            *)

Undefined == <<"undefined">>

\* Base62 variant
getRandomBytes(length, env, r) ==
    IF env.crypto = "ok"
    THEN Ok(SubSeq(r, 1, length), <<"crypto.getRandomValues">>)
    ELSE IF env.hasGlobalThis /\ env.globalThisCrypto = "undefined"
    THEN Throw(<<"Cannot read properties of undefined (reading 'getRandomValues')">>, <<>>)
    ELSE IF env.hasGlobalThis /\ env.globalThisCrypto = "ok"
    THEN Ok(SubSeq(r, 1, length), <<"globalThis.crypto.getRandomValues">>)
    ELSE Throw(<<"Crypto API not available">>, <<>>)

\* (b & 0x0f) | 0x70 and (b & 0x3f) | 0x80 on a byte b
setVersion(b) == (b % 16) + 112

setVariant(b) == (b % 64) + 128

\* a slip: the version nibble written into value[7] instead of value[6]
generateUUIDv7_62_VersionInByte7(env, r, t) ==
    LET rb == getRandomBytes(16, env, r)
    IN  IF ~rb.ok THEN Throw(rb.error, <<"getRandomBytes">> \o rb.calls)
        ELSE LET value == [i \in 1..16 |->
                              IF i <= 6 THEN BigByte(t, 6 - i)
                              ELSE IF i = 8 THEN setVersion(rb.value[8])
                              ELSE IF i = 9 THEN setVariant(rb.value[9])
                              ELSE rb.value[i]]
             IN  Ok(hyphenate(BytesHex(value)),
                    <<"getRandomBytes">> \o rb.calls \o <<"Date.now">>)

\* a slip: the timestamp bytes written least significant first
generateUUIDv7_62_LittleEndian(env, r, t) ==
    LET rb == getRandomBytes(16, env, r)
    IN  IF ~rb.ok THEN Throw(rb.error, <<"getRandomBytes">> \o rb.calls)
        ELSE LET value == [i \in 1..16 |->
                              IF i <= 6 THEN BigByte(t, i - 1)
                              ELSE IF i = 7 THEN setVersion(rb.value[7])
                              ELSE IF i = 9 THEN setVariant(rb.value[9])
                              ELSE rb.value[i]]
             IN  Ok(hyphenate(BytesHex(value)),
                    <<"getRandomBytes">> \o rb.calls \o <<"Date.now">>)

\* Base62 variant: random bytes first, then the clock; value[k] is at index k + 1
generateUUIDv7_62(env, r, t) ==
    LET rb == getRandomBytes(16, env, r)
    IN  IF ~rb.ok THEN Throw(rb.error, <<"getRandomBytes">> \o rb.calls)
        ELSE LET value == [i \in 1..16 |->
                              IF i <= 6 THEN BigByte(t, 6 - i)
                              ELSE IF i = 7 THEN setVersion(rb.value[7])
                              ELSE IF i = 9 THEN setVariant(rb.value[9])
                              ELSE rb.value[i]]
             IN  Ok(hyphenate(BytesHex(value)),
                    <<"getRandomBytes">> \o rb.calls \o <<"Date.now">>)

\* Base32 variant: the clock first, then 12 random bytes; bytes[k] is at index k + 1
generateUUIDv7(env, r, t) ==
    LET calls == <<"Date.now">>
    IN  IF env.crypto = "ok" \/ (env.hasGlobalThis /\ env.globalThisCrypto = "ok")
        THEN LET randomBytes == SubSeq(r, 1, 12)
                 bytes == [i \in 1..16 |->
                              IF i <= 6 THEN BigByte(t, 6 - i)
                              ELSE IF i = 7 THEN randomBytes[1]
                              ELSE IF i = 8 THEN setVersion(randomBytes[2])
                              ELSE IF i = 9 THEN setVariant(randomBytes[3])
                              ELSE randomBytes[i - 6]]
             IN  Ok(hyphenate(BytesHex(bytes)),
                    calls \o <<IF env.crypto = "ok" THEN "crypto.getRandomValues"
                                                    ELSE "globalThis.crypto.getRandomValues">>)
        ELSE Throw(<<"Crypto API not available">>, calls)

-----------------------------------------------------------------------------
(* Prefixed-id grammar, Base62 variant *)

PREFIX_MAX == 40

\* the cap the Base62 variant promises for a whole id
ID_MAX_62 == 63

PrefixCharset == Range(LOWER) \cup Range(DIGITS) \cup {"_"}

\* a slip: the character class without the length limit, /^[a-z0-9_]+$/
validatePrefix_NoLengthCap(prefix) ==
    IF Len(prefix) >= 1 /\ \A i \in 1..Len(prefix) : prefix[i] \in PrefixCharset
    THEN Ok(<<>>, <<>>)
    ELSE Throw(<<"invalid prefix: ">> \o prefix, <<>>)

\* /^[a-z0-9_]{1,40}$/.test(prefix)
validatePrefix(prefix) ==
    IF Len(prefix) >= 1 /\ Len(prefix) <= PREFIX_MAX
          /\ \A i \in 1..Len(prefix) : prefix[i] \in PrefixCharset
    THEN Ok(<<>>, <<>>)
    ELSE Throw(<<"invalid prefix: ">> \o prefix, <<>>)

\* [0-9a-zA-Z]
Base62Charset == Range(DIGITS) \cup Range(LOWER) \cup Range(UPPER)

\* a slip: the empty string passes
validateBase62_NoEmptyCheck(base62) ==
    IF ~(\A i \in 1..Len(base62) : base62[i] \in Base62Charset)
    THEN Throw(<<"Invalid Base62 character in: ">> \o base62, <<>>)
    ELSE Ok(<<>>, <<>>)

validateBase62(base62) ==
    IF Len(base62) = 0 THEN Throw(<<"Empty base62 part">>, <<>>)
    ELSE IF ~(\A i \in 1..Len(base62) :
                 base62[i] \in Base62Charset)
    THEN Throw(<<"Invalid Base62 character in: ">> \o base62, <<>>)
    ELSE Ok(<<>>, <<>>)

\* a slip: the prefix is not validated
generate_NoValidate(prefix, env, r, t) ==
    LET uuid == generateUUIDv7_62(env, r, t)
    IN  IF ~uuid.ok THEN Throw(uuid.error, uuid.calls)
        ELSE Ok(prefix \o <<"_">> \o uuidToBase62(uuid.value),
                uuid.calls \o <<"uuidToBase62">>)

\* a slip: the prefix is validated after the UUID was generated
generate_ValidateLast(prefix, env, r, t) ==
    LET uuid == generateUUIDv7_62(env, r, t)
        vp == validatePrefix(prefix)
    IN  IF ~uuid.ok THEN Throw(uuid.error, uuid.calls)
        ELSE IF ~vp.ok THEN Throw(vp.error, uuid.calls \o <<"validatePrefix">>)
        ELSE Ok(prefix \o <<"_">> \o uuidToBase62(uuid.value),
                uuid.calls \o <<"validatePrefix", "uuidToBase62">>)

generate(prefix, env, r, t) ==
    LET vp == validatePrefix(prefix)
    IN  IF ~vp.ok THEN Throw(vp.error, <<"validatePrefix">>)
        ELSE LET uuid == generateUUIDv7_62(env, r, t)
             IN  IF ~uuid.ok THEN Throw(uuid.error, <<"validatePrefix">> \o uuid.calls)
                 ELSE Ok(prefix \o <<"_">> \o uuidToBase62(uuid.value),
                         <<"validatePrefix">> \o uuid.calls \o <<"uuidToBase62">>)

\* a slip: the inner error rethrown as it is
ParseFailure_Rethrow(inner, calls) == Throw(inner, calls)

\* the catch block of parse / parsePrefixedId (every thrown value is an Error)
ParseFailure(inner, calls) == Throw(<<"Failed to parse ID: ">> \o inner, calls)

parse(id) ==
    LET underscoreIndex == lastIndexOf(id, "_")
    IN  IF underscoreIndex = -1
        THEN Throw(<<"Invalid prefixed ID format: ">> \o id, <<>>)
        ELSE LET prefix == slice(id, 0, underscoreIndex)
                 base62 == slice(id, underscoreIndex + 1, Len(id))
                 vp == validatePrefix(prefix)
                 vb == validateBase62(base62)
                 uuid == base62ToUUID(base62)
             IN  IF ~vp.ok THEN ParseFailure(vp.error, <<"validatePrefix">>)
                 ELSE IF ~vb.ok
                 THEN ParseFailure(vb.error, <<"validatePrefix", "validateBase62">>)
                 ELSE IF ~uuid.ok
                 THEN ParseFailure(uuid.error,
                                   <<"validatePrefix", "validateBase62", "base62ToUUID">>)
                 ELSE IF ~isValidUUID(uuid.value)
                 THEN ParseFailure(<<"Invalid UUID: ">> \o uuid.value,
                          <<"validatePrefix", "validateBase62", "base62ToUUID", "isValidUUID">>)
                 ELSE Ok([prefix |-> prefix, uuid |-> uuid.value],
                          <<"validatePrefix", "validateBase62", "base62ToUUID", "isValidUUID">>)

\* a slip: the expected prefix is not compared
validate_IgnorePrefix(id, prefix) ==
    LET parsed == parse(id)
    IN  Ok(parsed.ok, <<"parse">>)

\* prefix is a string or Undefined
validate(id, prefix) ==
    LET parsed == parse(id)
    IN  IF parsed.ok
        THEN Ok(prefix = Undefined \/ parsed.value.prefix = prefix, <<"parse">>)
        ELSE Ok(FALSE, <<"parse">>)

\* timestamp(id): parse, then the first 48 bits of the UUID read as milliseconds
\* since the epoch; a failure of parse is passed on as it is.  The value is
\* the getTime() of the Date returned.
timestamp(id) ==
    LET parsed == parse(id)
    IN  IF ~parsed.ok THEN Throw(parsed.error, <<"parse">>)
        ELSE Ok(BigFromHex(slice(stripHyphens(parsed.value.uuid), 0, 12)), <<"parse">>)

-----------------------------------------------------------------------------
(* Prefixed-id grammar, Base32 variant *)

ID_MAX_32 == 255

\* a slip: the length of the composed id is not checked
generatePrefixedId_NoCap(prefix, env, r, t) ==
    LET uuid == generateUUIDv7(env, r, t)
    IN  IF ~uuid.ok THEN Throw(uuid.error, <<"generateUUIDv7">> \o uuid.calls)
        ELSE Ok(prefix \o <<"_">> \o uuidToCrockfordBase32(uuid.value),
                <<"generateUUIDv7">> \o uuid.calls \o <<"uuidToCrockfordBase32">>)

generatePrefixedId(prefix, env, r, t) ==
    LET uuid == generateUUIDv7(env, r, t)
    IN  IF ~uuid.ok THEN Throw(uuid.error, <<"generateUUIDv7">> \o uuid.calls)
        ELSE LET base32 == uuidToCrockfordBase32(uuid.value)
                 id == prefix \o <<"_">> \o base32
                 calls == <<"generateUUIDv7">> \o uuid.calls \o <<"uuidToCrockfordBase32">>
             IN  IF Len(id) > ID_MAX_32
                 THEN Throw(<<"Generated ID exceeds 255 characters: ", ToString(Len(id))>>,
                            calls)
                 ELSE Ok(id, calls)

parsePrefixedId(id) ==
    LET underscoreIndex == indexOf(id, "_")
    IN  IF underscoreIndex = -1
        THEN Throw(<<"Invalid prefixed ID format: ">> \o id, <<>>)
        ELSE LET prefix == slice(id, 0, underscoreIndex)
                 base32 == slice(id, underscoreIndex + 1, Len(id))
                 uuid == crockfordBase32ToUuid(base32)
             IN  IF ~uuid.ok THEN ParseFailure(uuid.error, <<"crockfordBase32ToUuid">>)
                 ELSE IF ~isValidUUID(uuid.value)
                 THEN ParseFailure(<<"Invalid UUID: ">> \o uuid.value,
                                   <<"crockfordBase32ToUuid", "isValidUUID">>)
                 ELSE Ok([prefix |-> prefix, uuid |-> uuid.value],
                         <<"crockfordBase32ToUuid", "isValidUUID">>)

validatePrefixedId(id, prefix) ==
    LET parsed == parsePrefixedId(id)
    IN  IF parsed.ok
        THEN Ok(parsed.value.prefix = prefix, <<"parsePrefixedId">>)
        ELSE Ok(FALSE, <<"parsePrefixedId">>)

(* The StandardSchema adapter.  A value of type unknown is a record: type is  *)
(* what typeof gives and str is the string when type is "string".  The       *)
(* result of validate is a record with success, data (on success) and        *)
(* issues, the sequence of the issues' messages (on failure).                *)

StringValue(s) == [type |-> "string", str |-> s]

SchemaSuccess(data) == [success |-> TRUE, data |-> data, issues |-> <<>>]

SchemaFailure(message) == [success |-> FALSE, data |-> <<>>, issues |-> <<message>>]

\* a slip: data is the id composed again from the parsed parts
createIdSchema_Recomposed(prefix, value) ==
    IF value.type # "string"
    THEN Ok(SchemaFailure(<<"Expected string">>), <<>>)
    ELSE LET parsed == parsePrefixedId(value.str)
         IN  IF ~parsed.ok THEN Ok(SchemaFailure(parsed.error), <<"parsePrefixedId">>)
             ELSE IF parsed.value.prefix # prefix
             THEN Ok(SchemaFailure(<<"Invalid ">> \o prefix \o <<" ID format">>),
                     <<"parsePrefixedId">>)
             ELSE Ok(SchemaSuccess(parsed.value.prefix \o <<"_">>
                                      \o uuidToCrockfordBase32(parsed.value.uuid)),
                     <<"parsePrefixedId">>)

\* createIdSchema(prefix)['~standard'].validate(value)
createIdSchema(prefix, value) ==
    IF value.type # "string"
    THEN Ok(SchemaFailure(<<"Expected string">>), <<>>)
    ELSE LET parsed == parsePrefixedId(value.str)
         IN  IF ~parsed.ok THEN Ok(SchemaFailure(parsed.error), <<"parsePrefixedId">>)
             ELSE IF parsed.value.prefix # prefix
             THEN Ok(SchemaFailure(<<"Invalid ">> \o prefix \o <<" ID format">>),
                     <<"parsePrefixedId">>)
             ELSE Ok(SchemaSuccess(value.str), <<"parsePrefixedId">>)

\* IdSchema(prefix)['~standard'].validate(value)
IdSchema(prefix, value) == createIdSchema(prefix, value)

(* Dispatch by prefix. handlers is the set of the entries of the handlers     *)
(* object: prefix is the key, and the function either returns text followed  *)
(* by the UUID it was given or throws an error with message text.            *)

Null == [type |-> "null", str |-> <<>>]

\* parse; no match on failure or without a handler for the parsed prefix; else
\* the handler is invoked with the UUID and its result or its error is the call's
handleIdByPrefix(id, handlers) ==
    LET parsed == parsePrefixedId(id)
    IN  IF ~parsed.ok THEN Ok(Null, <<"parsePrefixedId">>)
        ELSE LET named == { h \in handlers : h.prefix = parsed.value.prefix }
             IN  IF named = {} THEN Ok(Null, <<"parsePrefixedId">>)
                 ELSE LET handler == CHOOSE h \in named : TRUE
                      IN  IF handler.kind = "throw"
                          THEN Throw(<<handler.text>>, <<"parsePrefixedId", "handler">>)
                          ELSE Ok(StringValue(<<handler.text>> \o parsed.value.uuid),
                                  <<"parsePrefixedId", "handler">>)

-----------------------------------------------------------------------------
(* Inputs *)

MaxShortPrefix == 2

MaxOverflow == 1

NumBytes == 16

SeqsUpTo(S, k) == UNION { [1..n -> S] : n \in 0..k }

PrefixChars == {"a", "_", "A"}

\* every short prefix over a lower-case letter, the underscore and an upper-case
\* letter, and prefixes with a digit and with a character outside every class
ShortPrefixes ==
    SeqsUpTo(PrefixChars, MaxShortPrefix)
        \cup { <<"9">>, <<"a", "9">>, <<"9", "_">>, <<"-">>, <<"a", "-">> }

\* prefixes around the 40-character limit of the Base62 variant
LongPrefixes62 ==
    { repeat("a", n) : n \in (PREFIX_MAX - 1)..(PREFIX_MAX + MaxOverflow) }
        \cup { <<"_">> \o repeat("a", PREFIX_MAX - 2) \o <<"_">> }

Prefixes62 == ShortPrefixes \cup LongPrefixes62

\* prefixes around the 255-character limit of the Base32 variant (the encoded
\* part of a generated id has 16 to 26 characters)
LongPrefixes32 ==
    { repeat("a", n) : n \in {200} \cup ((ID_MAX_32 - 27)..(ID_MAX_32 - 26 + MaxOverflow))
                                   \cup ((ID_MAX_32 - 17)..(ID_MAX_32 - 16)) }

Prefixes32 == ShortPrefixes \cup LongPrefixes32

PresentClock == <<1, 154, 80, 17, 34, 51>>

RampBytes == [i \in 1..16 |-> 17 * (i - 1)]

\* Date.now() as a BigInt: 0, 1, a present-day reading, 2^45, 2^48 - 1, 2^48, above 2^48
ClockVals ==
    { <<>>, <<1>>, PresentClock, <<32, 0, 0, 0, 0, 0>>,
      <<255, 255, 255, 255, 255, 255>>, <<1, 0, 0, 0, 0, 0, 0>>, <<1, 2, 3, 4, 5, 6, 7>> }

\* what the random source delivers: constant fills and two ramps
RandVals ==
    { [i \in 1..16 |-> f] : f \in {0, 15, 90, 165, 255} }
        \cup { RampBytes, [i \in 1..16 |-> 255 - 16 * (i - 1)] }

EnvOk == [crypto |-> "ok", globalThisCrypto |-> "ok", hasGlobalThis |-> TRUE]

EnvsOther ==
    { [crypto |-> "noGetRandomValues", globalThisCrypto |-> "noGetRandomValues",
       hasGlobalThis |-> TRUE],
      [crypto |-> "undefined", globalThisCrypto |-> "undefined", hasGlobalThis |-> TRUE],
      [crypto |-> "undefined", globalThisCrypto |-> "undefined", hasGlobalThis |-> FALSE],
      [crypto |-> "undefined", globalThisCrypto |-> "ok", hasGlobalThis |-> TRUE] }

\* every clock value with one draw, every draw with one clock value, and the
\* extreme clock values with the extreme draws
Platform ==
    { [env |-> EnvOk, r |-> RampBytes, t |-> t] : t \in ClockVals }
        \cup { [env |-> EnvOk, r |-> r, t |-> PresentClock] : r \in RandVals }
        \cup { [env |-> EnvOk, r |-> [i \in 1..16 |-> f], t |-> t] :
                  f \in {0, 255}, t \in {<<>>, <<255, 255, 255, 255, 255, 255>>} }
        \cup { [env |-> e, r |-> [i \in 1..16 |-> 90], t |-> PresentClock]
                 : e \in EnvsOther }

\* the platform of two generate calls in a row: neighbouring and distant clock
\* values up to 2^48, each with the smallest, the largest and mixed random bytes
OrderClockVals ==
    { <<>>, <<1>>, PresentClock, <<1, 154, 80, 17, 34, 52>>, <<32, 0, 0, 0, 0, 0>>,
      <<255, 255, 255, 255, 255, 254>>, <<255, 255, 255, 255, 255, 255>>,
      <<1, 0, 0, 0, 0, 0, 0>> }

OrderPlatform ==
    { [env |-> EnvOk, r |-> r, t |-> t] :
        r \in { [i \in 1..16 |-> 0], [i \in 1..16 |-> 255], RampBytes }, t \in OrderClockVals }

OrderPrefixes == { <<"a">>, <<"a", "_">> }

\* integers below 2^(8 * NumBytes)
Nums ==
    { IF b = 0 THEN <<>> ELSE <<b>> : b \in 0..255 }
        \cup { <<h>> \o [i \in 1..(n - 1) |-> f] :
                 n \in 2..NumBytes, h \in {1, 128, 255}, f \in {0, 90, 255} }

\* strings handed to the decoders: confusable letters, both cases, characters
\* outside the alphabets
MaxDecodeLen == 2

DecodeChars ==
    {"0", "1", "I", "i", "L", "l", "O", "o", "A", "a", "Z", "z", "U", "u", "!", "-"}

DecodeStrings == SeqsUpTo(DecodeChars, MaxDecodeLen)

\* canonical UUID strings of every value of Nums that fits 128 bits, in lower
\* and in upper case: all-zero, leading zero bytes, all-ones
CanonicalUuids ==
    LET lower == { hyphenate(padStart(BigToString16(n), 32)) :
                     n \in { m \in Nums : Len(m) <= 16 } }
    IN  lower \cup { [i \in 1..36 |-> toUpperCase(u[i])] : u \in lower }

\* valid prefixes of hand-made ids: plain, ending with an underscore, and of
\* the greatest length with underscores at both ends
ComposePrefixes ==
    { <<"a">>, <<"a", "_">>, <<"_">> \o repeat("a", PREFIX_MAX - 2) \o <<"_">> }

\* the part after the separator of a hand-made Base62 id
EncodedParts62 ==
    { <<>>, <<"0">>, <<"A", "z">>, <<"0", "0", "7">>, <<"!">>, <<"a", "!">>, <<"a", "-", "b">>,
      <<"7","n","4","2","D","G","M","5","T","f","l","k","9","n","8","m","t","7","F","h","c","7">>,
      <<"0","7","n","4","2","D","G","M","5","T","f","l","k","9","n","8","m","t","7","F","h",
        "c","7">>,
      <<"7","n","4","2","D","G","M","5","T","f","l","k","9","n","8","m","t","7","F","h","c","9">>,
      <<"0","1","H","K","P","7","X","8","R","6","G","Q","8","N","2","V","9","M","5","T","3",
        "J","4","K","0","W">> }

NoSeparator ==
    { <<>>, <<"a">>, <<"i","n","v","a","l","i","d">>, <<"A", "-", "!">>, <<"0">> }

\* malformed ids of the Base62 tests: test_invalid!, user_,
\* long_prefix_but_no_uuid_, _noprefix
TestIds62 ==
    { <<"t","e","s","t","_","i","n","v","a","l","i","d","!">>,
      <<"u","s","e","r","_">>,
      <<"l","o","n","g","_","p","r","e","f","i","x","_","b","u","t","_","n","o","_",
        "u","u","i","d","_">>,
      <<"_","n","o","p","r","e","f","i","x">> }

CraftedIds62 ==
    { p \o <<"_">> \o e : p \in Prefixes62, e \in EncodedParts62 }
        \cup NoSeparator \cup TestIds62

\* the part after the separator of a hand-made Base32 id
EncodedParts32 ==
    { <<>>, <<"0">>, <<"A", "z">>, <<"0", "0", "7">>, <<"!">>, <<"a", "!">>, <<"U">>,
      <<"i", "L", "o">>,
      <<"7","Z","Z","Z","Z","Z","Z","Z","Z","Z","Z","Z","Z","Z","Z","Z","Z","Z","Z","Z","Z",
        "Z","Z","Z","Z","Z">>,
      <<"8","0","0","0","0","0","0","0","0","0","0","0","0","0","0","0","0","0","0","0","0",
        "0","0","0","0","1">> }

\* the malformed ids of the Base32 tests: invalid_badbase32, test_badbase32, test_invalid!
TestIds32 ==
    { <<"i","n","v","a","l","i","d","_","b","a","d","b","a","s","e","3","2">>,
      <<"t","e","s","t","_","b","a","d","b","a","s","e","3","2">>,
      <<"t","e","s","t","_","i","n","v","a","l","i","d","!">> }

CraftedIds32 ==
    { p \o <<"_">> \o e : p \in ShortPrefixes, e \in EncodedParts32 }
        \cup NoSeparator \cup TestIds32

\* handlers objects: two handlers that return, one that throws, none
HandlerMaps ==
    { { [prefix |-> <<"a">>, kind |-> "return", text |-> "User UUID: "],
        [prefix |-> <<"A">>, kind |-> "return", text |-> "Admin UUID: "] },
      { [prefix |-> <<"a">>, kind |-> "throw", text |-> "fetchUser failed"] },
      {} }

\* values that are not strings: 123, undefined, null, an object
NonStrings ==
    { [type |-> ty, str |-> <<>>] : ty \in {"number", "undefined", "object", "boolean"} }

\* expected prefixes a caller may pass along with id: the text before the last
\* and before the first underscore, upper-cased and extended forms, and others
ExpectedFor(id) ==
    LET last == slice(id, 0, lastIndexOf(id, "_"))
        first == slice(id, 0, indexOf(id, "_"))
    IN  { last, first, [i \in 1..Len(last) |-> toUpperCase(last[i])],
          last \o <<"x">>, <<"a">>, <<>> }

-----------------------------------------------------------------------------
(* The caller: one call at a time.  A successful generate leaves the id in  *)
(* held; the caller makes its next call on that id and then drops it.       *)
(* Without a held id the caller passes hand-made ids.                       *)

NoCall ==
    [op |-> "none", prefix |-> <<>>, id |-> <<>>, num |-> <<>>, str |-> <<>>,
     value |-> [type |-> "undefined", str |-> <<>>], nth |-> 1, handlers |-> {},
     env |-> EnvOk, r |-> <<>>, t |-> <<>>, uuid |-> <<>>, result |-> Ok(<<>>, <<>>)]

NoHeld == [variant |-> "none", id |-> <<>>, prefix |-> <<>>, uuid |-> <<>>, r |-> <<>>, t |-> <<>>]

Idle == call.op = "none" /\ held.variant = "none"

Init ==
    /\ CROCKFORD_ALPHABET = CrockfordAlphabet
    /\ DECODE_MAP = CrockfordDecodeMap
    /\ BASE62_ALPHABET = Base62Alphabet
    /\ DECODE_MAP_62 = Base62DecodeMap
    /\ held = NoHeld
    /\ call = NoCall

Generate(p, pl) ==
    /\ Idle
    /\ LET res == generate(p, pl.env, pl.r, pl.t)
           uuid == IF res.ok THEN generateUUIDv7_62(pl.env, pl.r, pl.t).value ELSE <<>>
       IN  /\ call' = [NoCall EXCEPT !.op = "generate", !.prefix = p, !.env = pl.env,
                                     !.r = pl.r, !.t = pl.t, !.uuid = uuid, !.result = res]
           /\ held' = IF res.ok
                      THEN [variant |-> "base62", id |-> res.value, prefix |-> p,
                            uuid |-> uuid, r |-> pl.r, t |-> pl.t]
                      ELSE NoHeld
    /\ UNCHANGED tables

GeneratePrefixedId(p, pl) ==
    /\ Idle
    /\ LET res == generatePrefixedId(p, pl.env, pl.r, pl.t)
           gen == generateUUIDv7(pl.env, pl.r, pl.t)
           uuid == IF gen.ok THEN gen.value ELSE <<>>
       IN  /\ call' = [NoCall EXCEPT !.op = "generatePrefixedId", !.prefix = p,
                                     !.env = pl.env, !.r = pl.r, !.t = pl.t,
                                     !.uuid = uuid, !.result = res]
           /\ held' = IF res.ok
                      THEN [variant |-> "base32", id |-> res.value, prefix |-> p,
                            uuid |-> uuid, r |-> pl.r, t |-> pl.t]
                      ELSE NoHeld
    /\ UNCHANGED tables

\* a second generate call with the same prefix while the first id is held
GenerateAgain(pl) ==
    /\ held.variant = "base62"
    /\ call.op = "generate"
    /\ call.nth = 1
    /\ LET res == generate(held.prefix, pl.env, pl.r, pl.t)
           uuid == IF res.ok THEN generateUUIDv7_62(pl.env, pl.r, pl.t).value ELSE <<>>
       IN  call' = [NoCall EXCEPT !.op = "generate", !.nth = 2, !.prefix = held.prefix,
                                  !.env = pl.env, !.r = pl.r, !.t = pl.t, !.uuid = uuid,
                                  !.result = res]
    /\ UNCHANGED <<held, tables>>

\* the ids a caller can pass to the Base62 / Base32 functions in this state
Ids62 == IF held.variant = "base62" /\ call.op = "generate" /\ call.nth = 1 THEN {held.id}
         ELSE IF Idle THEN CraftedIds62 ELSE {}

Ids32 == IF held.variant = "base32" /\ call.op = "generatePrefixedId" THEN {held.id}
         ELSE IF Idle THEN CraftedIds32 ELSE {}

\* a slip: parse enters the separator into the decode table
Parse_Memo(id) ==
    /\ id \in Ids62
    /\ call' = [NoCall EXCEPT !.op = "parse", !.id = id, !.result = parse(id)]
    /\ DECODE_MAP_62' = [c \in DOMAIN DECODE_MAP_62 \cup {"_"} |->
                            IF c = "_" THEN 0 ELSE DECODE_MAP_62[c]]
    /\ UNCHANGED <<held, CROCKFORD_ALPHABET, DECODE_MAP, BASE62_ALPHABET>>

Parse(id) ==
    /\ id \in Ids62
    /\ call' = [NoCall EXCEPT !.op = "parse", !.id = id, !.result = parse(id)]
    /\ UNCHANGED <<held, tables>>

\* parse of the hand-made id p_<Base62 rendering of n>
ParseComposed(p, n) ==
    /\ Idle
    /\ LET id == p \o <<"_">> \o encodeBase62(n)
       IN  call' = [NoCall EXCEPT !.op = "parse", !.prefix = p, !.num = n, !.id = id,
                                 !.result = parse(id)]
    /\ UNCHANGED <<held, tables>>

Validate(id, prefix) ==
    /\ id \in Ids62
    /\ call' = [NoCall EXCEPT !.op = "validate", !.id = id, !.prefix = prefix,
                              !.result = validate(id, prefix)]
    /\ UNCHANGED <<held, tables>>

Timestamp(id) ==
    /\ id \in Ids62
    /\ call' = [NoCall EXCEPT !.op = "timestamp", !.id = id, !.result = timestamp(id)]
    /\ UNCHANGED <<held, tables>>

ParsePrefixedId(id) ==
    /\ id \in Ids32
    /\ call' = [NoCall EXCEPT !.op = "parsePrefixedId", !.id = id,
                              !.result = parsePrefixedId(id)]
    /\ UNCHANGED <<held, tables>>

ValidatePrefixedId(id, prefix) ==
    /\ id \in Ids32
    /\ call' = [NoCall EXCEPT !.op = "validatePrefixedId", !.id = id, !.prefix = prefix,
                              !.result = validatePrefixedId(id, prefix)]
    /\ UNCHANGED <<held, tables>>

SchemaValidate(prefix, value) ==
    /\ IF value.type = "string" THEN value.str \in Ids32 ELSE Idle
    /\ call' = [NoCall EXCEPT !.op = "IdSchema.validate", !.prefix = prefix,
                              !.value = value, !.result = IdSchema(prefix, value)]
    /\ UNCHANGED <<held, tables>>

HandleIdByPrefix(id, handlers) ==
    /\ id \in Ids32
    /\ call' = [NoCall EXCEPT !.op = "handleIdByPrefix", !.id = id, !.handlers = handlers,
                              !.result = handleIdByPrefix(id, handlers)]
    /\ UNCHANGED <<held, tables>>

EncodeBase62(n) ==
    /\ Idle
    /\ call' = [NoCall EXCEPT !.op = "encodeBase62", !.num = n,
                              !.result = Ok(encodeBase62(n), <<>>)]
    /\ UNCHANGED <<held, tables>>

EncodeCrockfordBase32(n) ==
    /\ Idle
    /\ call' = [NoCall EXCEPT !.op = "encodeCrockfordBase32", !.num = n,
                              !.result = Ok(encodeCrockfordBase32(n), <<>>)]
    /\ UNCHANGED <<held, tables>>

DecodeBase62(str) ==
    /\ Idle
    /\ call' = [NoCall EXCEPT !.op = "decodeBase62", !.str = str,
                              !.result = decodeBase62(str)]
    /\ UNCHANGED <<held, tables>>

DecodeCrockfordBase32(str) ==
    /\ Idle
    /\ call' = [NoCall EXCEPT !.op = "decodeCrockfordBase32", !.str = str,
                              !.result = decodeCrockfordBase32(str)]
    /\ UNCHANGED <<held, tables>>

UuidToCrockfordBase32(u) ==
    /\ Idle
    /\ call' = [NoCall EXCEPT !.op = "uuidToCrockfordBase32", !.str = u,
                              !.result = Ok(uuidToCrockfordBase32(u), <<>>)]
    /\ UNCHANGED <<held, tables>>

\* the caller is done with the result and with the id it held
Return ==
    /\ call.op # "none"
    /\ call' = NoCall
    /\ held' = NoHeld
    /\ UNCHANGED tables

\* the calls on the Base62 variant
\* the inputs of a first call: none while a call is under way
WhenIdle(S) == IF Idle THEN S ELSE {}

Calls62 ==
    \/ \E p \in WhenIdle(Prefixes62), pl \in Platform : Generate(p, pl)
    \/ \E id \in Ids62 : Parse(id)
    \/ \E p \in WhenIdle(ComposePrefixes), n \in Nums : ParseComposed(p, n)
    \/ \E id \in Ids62 : \E prefix \in ExpectedFor(id) \cup {Undefined} : Validate(id, prefix)
    \/ \E id \in Ids62 : Timestamp(id)

\* the calls on the Base32 variant
Calls32 ==
    \/ \E p \in WhenIdle(Prefixes32), pl \in Platform : GeneratePrefixedId(p, pl)
    \/ \E id \in Ids32 : ParsePrefixedId(id)
    \/ \E id \in Ids32 : \E prefix \in ExpectedFor(id) : ValidatePrefixedId(id, prefix)
    \/ \E id \in Ids32 : \E prefix \in ExpectedFor(id) :
          SchemaValidate(prefix, StringValue(id))
    \/ \E value \in WhenIdle(NonStrings) : \E prefix \in {<<>>, <<"a">>} : SchemaValidate(prefix, value)
    \/ \E id \in Ids32 : \E handlers \in HandlerMaps : HandleIdByPrefix(id, handlers)

\* the calls on the codecs
CallsCodec ==
    \/ \E n \in WhenIdle(Nums) : EncodeBase62(n)
    \/ \E n \in WhenIdle(Nums) : EncodeCrockfordBase32(n)
    \/ \E str \in WhenIdle(DecodeStrings) : DecodeBase62(str)
    \/ \E str \in WhenIdle(DecodeStrings) : DecodeCrockfordBase32(str)
    \/ \E u \in WhenIdle(CanonicalUuids) : UuidToCrockfordBase32(u)

Next62 == Calls62 \/ Return

Next32 == Calls32 \/ Return

NextCodec == CallsCodec \/ Return

Next == Calls62 \/ Calls32 \/ CallsCodec \/ Return

\* two generate calls in a row
NextOrder62 ==
    \/ \E p \in OrderPrefixes, pl \in OrderPlatform : Generate(p, pl)
    \/ \E pl \in OrderPlatform : GenerateAgain(pl)
    \/ Return

\* both variants and the codecs
Spec == Init /\ [][Next]_vars

\* the Base62 variant alone
Spec62 == Init /\ [][Next62]_vars

\* the Base32 variant alone
Spec32 == Init /\ [][Next32]_vars

\* the codecs alone
SpecCodec == Init /\ [][NextCodec]_vars

\* the Base62 variant generating two ids one after the other
SpecOrder62 == Init /\ [][NextOrder62]_vars

TypeOK == call.op \in {"none", "generate", "parse", "validate", "generatePrefixedId",
                       "parsePrefixedId", "validatePrefixedId", "encodeBase62",
                       "encodeCrockfordBase32", "decodeBase62", "decodeCrockfordBase32",
                       "IdSchema.validate", "timestamp", "uuidToCrockfordBase32",
                       "handleIdByPrefix"}

-----------------------------------------------------------------------------
(* Properties *)

HasUnderscore(s) == \E i \in 1..Len(s) : s[i] = "_"

\* the text before / after the last underscore of a string that has one
LastSep(s) == CHOOSE i \in 1..Len(s) : s[i] = "_" /\ \A j \in (i + 1)..Len(s) : s[j] # "_"

BeforeLast(s) == SubSeq(s, 1, LastSep(s) - 1)

AfterLast(s) == SubSeq(s, LastSep(s) + 1, Len(s))

\* the text before / after the first underscore of a string that has one
FirstSep(s) == CHOOSE i \in 1..Len(s) : s[i] = "_" /\ \A j \in 1..(i - 1) : s[j] # "_"

BeforeFirst(s) == SubSeq(s, 1, FirstSep(s) - 1)

AfterFirst(s) == SubSeq(s, FirstSep(s) + 1, Len(s))

\* [a-z0-9_]{1,40}, written out
StrictPrefixChars ==
    {"a","b","c","d","e","f","g","h","i","j","k","l","m","n","o","p","q","r","s","t","u",
     "v","w","x","y","z","0","1","2","3","4","5","6","7","8","9","_"}

MatchesStrictRule(p) ==
    Len(p) >= 1 /\ Len(p) <= 40 /\ \A i \in 1..Len(p) : p[i] \in StrictPrefixChars

\* the platform delivers random bytes to the call
HasEntropy(env) == env.crypto = "ok" \/ (env.hasGlobalThis /\ env.globalThisCrypto = "ok")

\* the 16 bytes a canonical UUID string stands for
UuidBytes(uuid) == HexPairs(stripHyphens(uuid))

\* C1: Base62 round trip. Parsing an id that generate returned gives back the
\* prefix passed to generate and the UUID generated, and the Base62 rendering of
\* that UUID is the text after the last underscore of the id.
C1_RoundTrip62 ==
    (call.op = "parse" /\ held.variant = "base62") =>
        /\ call.id = held.id
        /\ call.result.ok
        /\ call.result.value.prefix = held.prefix
        /\ call.result.value.uuid = held.uuid
        /\ uuidToBase62(call.result.value.uuid) = AfterLast(held.id)

C1_Witness ==
    /\ call.op = "parse"
    /\ held.variant = "base62"
    /\ held.prefix = <<"_", "_">>
    /\ call.result.ok
    /\ call.result.value.prefix = <<"_", "_">>

\* C2: Base32 round trip. Parsing an id that generatePrefixedId returned gives
\* back the prefix passed in (underscores included) and the UUID generated, and
\* prefix + "_" + uuidToCrockfordBase32(uuid) is the id.
C2_RoundTrip32 ==
    (call.op = "parsePrefixedId" /\ held.variant = "base32") =>
        /\ call.id = held.id
        /\ call.result.ok
        /\ call.result.value.prefix = held.prefix
        /\ call.result.value.uuid = held.uuid
        /\ call.result.value.prefix \o <<"_">>
              \o uuidToCrockfordBase32(call.result.value.uuid) = held.id

\* C3: codec inverse law. Decoding the rendering of n gives n, in both codecs.
C3_CodecInverse ==
    /\ call.op = "encodeBase62" =>
          LET d == decodeBase62(call.result.value) IN d.ok /\ d.value = call.num
    /\ call.op = "encodeCrockfordBase32" =>
          LET d == decodeCrockfordBase32(call.result.value) IN d.ok /\ d.value = call.num

C3_Witness ==
    /\ call.op = "encodeBase62"
    /\ call.num = [i \in 1..16 |-> 255]
    /\ Len(call.result.value) = 22

\* C4: Base32 variant. The UUID generated has "7" at index 14 of its
\* canonical string and one of 8, 9, a, b at index 19.
C4_VersionVariant32 ==
    (call.op = "generatePrefixedId" /\ call.uuid # <<>>) =>
        /\ call.uuid[15] = "7"
        /\ call.uuid[20] \in {"8", "9", "a", "b"}

\* C5: Base62 variant. The UUID generated is the canonical hex of 16 bytes:
\* bytes 0..5 are the clock reading mod 2^48, most significant first, byte 6
\* is 0x70 | (r[6] & 0x0f), byte 8 is 0x80 | (r[8] & 0x3f), and bytes 7 and
\* 9..15 are the random bytes unchanged.
C5_Layout62 ==
    (call.op = "generate" /\ call.result.ok) =>
        /\ isValidUUID(call.uuid)
        /\ call.uuid = hyphenate(BytesHex(UuidBytes(call.uuid)))
        /\ LET b == UuidBytes(call.uuid)
               t48 == [k \in 1..6 |-> IF Len(call.t) - 6 + k >= 1
                                      THEN call.t[Len(call.t) - 6 + k] ELSE 0]
           IN  /\ Len(b) = 16
               /\ \A k \in 1..6 : b[k] = t48[k]
               /\ b[7] = 112 + (call.r[7] % 16)
               /\ b[9] = 128 + (call.r[9] % 64)
               /\ \A k \in {8} \cup (10..16) : b[k] = call.r[k]

C5_Witness ==
    /\ call.op = "generate"
    /\ call.result.ok
    /\ call.t = <<1, 2, 3, 4, 5, 6, 7>>
    /\ call.r = RampBytes
    /\ call.uuid[15] = "7"

\* C6: validate and validatePrefixedId never throw. They return true exactly
\* when parsing the id succeeds and the expected prefix is omitted (validate
\* only: validatePrefixedId takes a string) or equal to the parsed prefix.
C6_ValidateTotal ==
    /\ call.op = "validate" =>
          /\ call.result.ok
          /\ call.result.value \in BOOLEAN
          /\ call.result.value =
                (parse(call.id).ok /\ (call.prefix = Undefined
                                        \/ parse(call.id).value.prefix = call.prefix))
    /\ call.op = "validatePrefixedId" =>
          /\ call.result.ok
          /\ call.result.value \in BOOLEAN
          /\ call.result.value =
                (parsePrefixedId(call.id).ok
                    /\ parsePrefixedId(call.id).value.prefix = call.prefix)

C6_Witness ==
    /\ call.op = "validate"
    /\ call.id = <<"a", "_", "a", "!">>
    /\ call.prefix = <<"a">>
    /\ call.result.ok
    /\ call.result.value = FALSE

\* the message of the first step of parse that fails after the split
InnerError62(id) ==
    LET prefix == BeforeLast(id)
        base62 == AfterLast(id)
    IN  IF ~validatePrefix(prefix).ok THEN <<"invalid prefix: ">> \o prefix
        ELSE IF base62 = <<>> THEN <<"Empty base62 part">>
        ELSE IF \E i \in 1..Len(base62) : base62[i] \notin Base62Charset
             THEN <<"Invalid Base62 character in: ">> \o base62
        ELSE <<"Invalid UUID: ">> \o base62ToUUID(base62).value

InnerError32(id) ==
    LET base32 == AfterFirst(id)
    IN  IF ~decodeCrockfordBase32(base32).ok THEN decodeCrockfordBase32(base32).error
        ELSE <<"Invalid UUID: ">> \o crockfordBase32ToUuid(base32).value

\* C7: parsing an id without an underscore fails with "Invalid prefixed ID
\* format: <id>", unwrapped and before any other step; a failure after the
\* split carries "Failed to parse ID: " followed by the inner error's message.
C7_ParseErrors ==
    /\ (call.op \in {"parse", "parsePrefixedId"} /\ ~HasUnderscore(call.id)) =>
          /\ ~call.result.ok
          /\ call.result.error = <<"Invalid prefixed ID format: ">> \o call.id
          /\ call.result.calls = <<>>
    /\ (call.op = "parse" /\ HasUnderscore(call.id) /\ ~call.result.ok) =>
          call.result.error = <<"Failed to parse ID: ">> \o InnerError62(call.id)
    /\ (call.op = "parsePrefixedId" /\ HasUnderscore(call.id) /\ ~call.result.ok) =>
          call.result.error = <<"Failed to parse ID: ">> \o InnerError32(call.id)

C7_Witness ==
    /\ call.op = "parse"
    /\ call.id = <<"a", "_", "_", "a", "!">>
    /\ call.result.error =
          <<"Failed to parse ID: ", "Invalid Base62 character in: ", "a", "!">>

\* C8: Base62 variant. generate accepts exactly the prefixes matching
\* [a-z0-9_]{1,40} (on a platform that delivers random bytes) and throws
\* "invalid prefix" for every other one, returning no id; parse and validate
\* accept an id only if the text before its last underscore matches that rule,
\* and parse accepts every such id whose encoded part is Base62.
C8_PrefixRule62 ==
    /\ call.op = "generate" =>
          /\ call.result.ok => MatchesStrictRule(call.prefix)
          /\ (MatchesStrictRule(call.prefix) /\ HasEntropy(call.env)) => call.result.ok
          /\ ~MatchesStrictRule(call.prefix) =>
                /\ ~call.result.ok
                /\ call.result.error = <<"invalid prefix: ">> \o call.prefix
                /\ held = NoHeld
    /\ (call.op = "parse" /\ call.result.ok) => MatchesStrictRule(BeforeLast(call.id))
    /\ (call.op = "validate" /\ call.result.value = TRUE) =>
          MatchesStrictRule(BeforeLast(call.id))
    /\ (call.op = "parse" /\ HasUnderscore(call.id)) =>
          (call.result.ok <=>
              /\ MatchesStrictRule(BeforeLast(call.id))
              /\ AfterLast(call.id) # <<>>
              /\ \A i \in 1..Len(AfterLast(call.id)) : AfterLast(call.id)[i] \in Base62Charset)

C8_Witness ==
    /\ call.op = "generate"
    /\ Len(call.prefix) = 41
    /\ \A i \in 1..41 : call.prefix[i] = "a"
    /\ ~call.result.ok
    /\ Head(call.result.error) = "invalid prefix: "

\* C9: Base62 variant. An id that generate returns has at most 63 characters,
\* its encoded part at most 22.
C9_Length62 ==
    (call.op = "generate" /\ call.result.ok) =>
        /\ Len(call.result.value) <= ID_MAX_62
        /\ Len(AfterLast(call.result.value)) <= 22

C9_Witness ==
    /\ call.op = "generate"
    /\ call.result.ok
    /\ Len(call.prefix) = 40
    /\ Len(call.result.value) = 63

\* C10: Base32 variant. An id that generatePrefixedId returns has at most 255
\* characters; when prefix + "_" + encoded is longer the call throws, after the
\* UUID was generated and encoded; with a 200-character prefix it returns.
C10_Length32 ==
    call.op = "generatePrefixedId" =>
        LET composed == Len(call.prefix) + 1 + Len(uuidToCrockfordBase32(call.uuid))
        IN  /\ call.result.ok => Len(call.result.value) <= 255
            /\ (call.uuid # <<>> /\ composed > 255) =>
                  /\ ~call.result.ok
                  /\ call.result.error =
                        <<"Generated ID exceeds 255 characters: ", ToString(composed)>>
                  /\ Len(call.result.calls) = 4
                  /\ call.result.calls[1] = "generateUUIDv7"
                  /\ call.result.calls[2] = "Date.now"
                  /\ call.result.calls[3] \in {"crypto.getRandomValues",
                                                "globalThis.crypto.getRandomValues"}
                  /\ call.result.calls[4] = "uuidToCrockfordBase32"
            /\ (call.uuid # <<>> /\ composed <= 255) => call.result.ok
            /\ (Len(call.prefix) = 200 /\ HasEntropy(call.env)) => call.result.ok

C10_Witness ==
    /\ call.op = "generatePrefixedId"
    /\ ~call.result.ok
    /\ Len(call.prefix) = 230
    /\ call.result.error = <<"Generated ID exceeds 255 characters: ", "256">>

\* the characters decodeCrockfordBase32 accepts: digits and letters other than U, u
CrockfordAccepted == (Range(DIGITS) \cup Range(UPPER) \cup Range(LOWER)) \ {"U", "u"}

LowerCased(s) == [i \in 1..Len(s) |-> toLowerCase(s[i])]

UpperCased(s) == [i \in 1..Len(s) |-> toUpperCase(s[i])]

\* C13: Base32 decode folds confusable letters and ignores case. I, i, L, l and
\* 1 decode to 1, O, o and 0 decode to 0, and every string decode accepts
\* decodes to the same value as its lower-cased and its upper-cased form.
C13_Folding ==
    call.op = "decodeCrockfordBase32" =>
        /\ call.str \in {<<"I">>, <<"i">>, <<"L">>, <<"l">>, <<"1">>} =>
              call.result.ok /\ call.result.value = <<1>>
        /\ call.str \in {<<"O">>, <<"o">>, <<"0">>} =>
              call.result.ok /\ call.result.value = <<>>
        /\ call.result.ok =>
              LET lo == decodeCrockfordBase32(LowerCased(call.str))
                  up == decodeCrockfordBase32(UpperCased(call.str))
              IN  /\ lo.ok /\ lo.value = call.result.value
                  /\ up.ok /\ up.value = call.result.value

C13_Witness ==
    /\ call.op = "decodeCrockfordBase32"
    /\ call.str = <<"l", "a">>
    /\ call.result.ok
    /\ call.result.value = <<42>>

\* the 1-based positions of the characters of s that are outside the set ok
BadPositions(s, ok) == { i \in 1..Len(s) : s[i] \notin ok }

FirstBad(s, ok) == CHOOSE i \in BadPositions(s, ok) : \A j \in BadPositions(s, ok) : i <= j

\* C14: decode fails at the leftmost character that is not in its table, with
\* an error naming exactly that character and without a partial result, and
\* succeeds on every other string; Base32 decode rejects U, u and ! this way.
C14_FirstInvalid ==
    /\ call.op = "decodeCrockfordBase32" =>
          /\ BadPositions(call.str, CrockfordAccepted) = {} => call.result.ok
          /\ BadPositions(call.str, CrockfordAccepted) # {} =>
                /\ ~call.result.ok
                /\ call.result.value = <<>>
                /\ call.result.error =
                      <<"Invalid Crockford Base32 character: ",
                        call.str[FirstBad(call.str, CrockfordAccepted)]>>
          /\ call.str \in {<<"U">>, <<"u">>, <<"!">>} =>
                /\ ~call.result.ok
                /\ call.result.error = <<"Invalid Crockford Base32 character: ">> \o call.str
    /\ call.op = "decodeBase62" =>
          /\ BadPositions(call.str, Base62Charset) = {} => call.result.ok
          /\ BadPositions(call.str, Base62Charset) # {} =>
                /\ ~call.result.ok
                /\ call.result.value = <<>>
                /\ call.result.error =
                      <<"Invalid Base62 character: ",
                        call.str[FirstBad(call.str, Base62Charset)]>>

C14_Witness ==
    /\ call.op = "decodeCrockfordBase32"
    /\ call.str = <<"!", "U">>
    /\ ~call.result.ok
    /\ call.result.error = <<"Invalid Crockford Base32 character: ", "!">>

\* C11: Base62 variant. parse fails and validate returns false for every id
\* longer than 63 characters.
C11_InputCap62 ==
    /\ (call.op = "parse" /\ Len(call.id) > 63) => ~call.result.ok
    /\ (call.op = "validate" /\ Len(call.id) > 63) => call.result.value = FALSE

\* C12: Base32 variant. generatePrefixedId rejects the empty prefix and accepts
\* every non-empty prefix whose composed id has at most 255 characters;
\* parsePrefixedId rejects an id whose prefix part is empty.
C12_PrefixRule32 ==
    /\ call.op = "generatePrefixedId" =>
          /\ call.prefix = <<>> => (~call.result.ok /\ held = NoHeld)
          /\ (/\ call.prefix # <<>>
              /\ call.uuid # <<>>
              /\ Len(call.prefix) + 1 + Len(uuidToCrockfordBase32(call.uuid)) <= 255) =>
                call.result.ok
    /\ (call.op = "parsePrefixedId" /\ HasUnderscore(call.id)
            /\ BeforeFirst(call.id) = <<>>) => ~call.result.ok

\* C18: Base32 variant. parsePrefixedId throws "Failed to parse ID" for
\* invalid_badbase32 and for test_invalid!, and validatePrefixedId returns false
\* for test_badbase32 and for test_invalid! with the expected prefix test.
C18_Malformed32 ==
    /\ (call.op = "parsePrefixedId"
            /\ call.id \in TestIds32
            /\ BeforeFirst(call.id) \in {<<"i","n","v","a","l","i","d">>, <<"t","e","s","t">>}
            /\ call.id # <<"t","e","s","t","_","b","a","d","b","a","s","e","3","2">>) =>
          /\ ~call.result.ok
          /\ Head(call.result.error) = "Failed to parse ID: "
    /\ (call.op = "validatePrefixedId"
            /\ call.id \in TestIds32
            /\ BeforeFirst(call.id) = <<"t","e","s","t">>
            /\ call.prefix = <<"t","e","s","t">>) =>
          call.result.value = FALSE

\* C19: without a reachable secure random source generate (given a prefix it
\* accepts) and generatePrefixedId throw "Crypto API not available", return no
\* id and read no random bytes from anywhere.
C19_EntropyUnavailable ==
    (/\ call.op \in {"generate", "generatePrefixedId"}
     /\ ~HasEntropy(call.env)
     /\ call.op = "generate" => MatchesStrictRule(call.prefix)) =>
        /\ ~call.result.ok
        /\ call.result.error = <<"Crypto API not available">>
        /\ held = NoHeld
        /\ \A i \in 1..Len(call.result.calls) :
              call.result.calls[i] \notin {"crypto.getRandomValues",
                                           "globalThis.crypto.getRandomValues"}

\* C17: IdSchema(p)['~standard'].validate(v) never throws; for a non-string it
\* reports the single issue "Expected string"; for a string it succeeds exactly
\* when validatePrefixedId(v, p) is true, with data identical to v, and
\* otherwise fails with an issue, which carries the parse error's message when
\* parsing failed.
C17_Schema ==
    call.op = "IdSchema.validate" =>
        /\ call.result.ok
        /\ call.result.value.success \in BOOLEAN
        /\ call.value.type # "string" =>
              /\ ~call.result.value.success
              /\ call.result.value.issues = << <<"Expected string">> >>
        /\ call.value.type = "string" =>
              /\ call.result.value.success =
                    (validatePrefixedId(call.value.str, call.prefix).value = TRUE)
              /\ call.result.value.success =>
                    (call.result.value.data = call.value.str
                        /\ call.result.value.issues = <<>>)
              /\ ~call.result.value.success =>
                    /\ Len(call.result.value.issues) >= 1
                    /\ ~parsePrefixedId(call.value.str).ok =>
                          call.result.value.issues[1] = parsePrefixedId(call.value.str).error

C17_Witness ==
    /\ call.op = "IdSchema.validate"
    /\ call.value = StringValue(<<"a", "_", "i", "L", "o">>)
    /\ call.prefix = <<"a">>
    /\ call.result.value.success
    /\ call.result.value.data = <<"a", "_", "i", "L", "o">>

\* the UTF-16 code unit of a character
CharCodeOf ==
    ("!" :> 33) @@ ("-" :> 45) @@ ("_" :> 95)
        @@ [c \in Range(DIGITS) |-> 47 + CHOOSE i \in 1..10 : DIGITS[i] = c]
        @@ [c \in Range(UPPER) |-> 64 + CHOOSE i \in 1..26 : UPPER[i] = c]
        @@ [c \in Range(LOWER) |-> 96 + CHOOSE i \in 1..26 : LOWER[i] = c]

\* a < b for sequences of numbers, compared element by element
SeqLess(a, b) ==
    \E i \in 1..(Len(b)) :
        /\ i <= Len(a) + 1
        /\ \A j \in 1..(i - 1) : a[j] = b[j]
        /\ (i = Len(a) + 1 \/ a[i] < b[i])

\* s < t for strings, as the < operator and the default sort compare them
StringLess(s, t) ==
    SeqLess([i \in 1..Len(s) |-> CharCodeOf[s[i]]], [i \in 1..Len(t) |-> CharCodeOf[t[i]]])

\* a < b for BigInts
BigLess(a, b) == Len(a) < Len(b) \/ (Len(a) = Len(b) /\ SeqLess(a, b))

\* the 48-bit timestamp embedded in a canonical UUID string
EmbeddedTimestamp(uuid) == BigNorm(SubSeq(UuidBytes(uuid), 1, 6))

\* the second of two generate calls has returned
SecondGenerated == call.op = "generate" /\ call.nth = 2 /\ call.result.ok

\* C15: two generate calls in a row with clock readings t1 <= t2 below 2^48
\* embed timestamps ts1 <= ts2, and when t1 < t2 the first UUID is smaller than
\* the second as a byte sequence and as a canonical string, whatever the random
\* bytes.
C15_UuidOrder ==
    (SecondGenerated /\ Len(held.t) <= 6 /\ Len(call.t) <= 6 /\ ~BigLess(call.t, held.t)) =>
        /\ ~BigLess(EmbeddedTimestamp(call.uuid), EmbeddedTimestamp(held.uuid))
        /\ BigLess(held.t, call.t) =>
              /\ SeqLess(UuidBytes(held.uuid), UuidBytes(call.uuid))
              /\ StringLess(held.uuid, call.uuid)

C15_Witness ==
    /\ SecondGenerated
    /\ held.t = PresentClock
    /\ held.r = [i \in 1..16 |-> 255]
    /\ call.t = <<1, 154, 80, 17, 34, 52>>
    /\ call.r = [i \in 1..16 |-> 0]
    /\ StringLess(held.uuid, call.uuid)

\* C16: Base62 variant. Of two ids generated with the same prefix at clock
\* readings t1 < t2 (both below 2^48) the first is the smaller string.
C16_IdOrder ==
    (SecondGenerated /\ Len(held.t) <= 6 /\ Len(call.t) <= 6 /\ BigLess(held.t, call.t)) =>
        StringLess(held.id, call.result.value)

\* the low 48 bits of a BigInt
Low48(t) == BigNorm(SubSeq(t, IF Len(t) > 6 THEN Len(t) - 5 ELSE 1, Len(t)))

\* what C20 says of every call of timestamp, the clock reading apart
TimestampOfParse ==
    call.op = "timestamp" =>
        /\ call.result.ok = parse(call.id).ok
        /\ call.result.calls = <<"parse">>
        /\ ~call.result.ok => call.result.error = parse(call.id).error
        /\ call.result.ok =>
              call.result.value = EmbeddedTimestamp(parse(call.id).value.uuid)
        /\ call.id \in {<<>>, <<"i","n","v","a","l","i","d">>} \cup TestIds62 =>
              ~call.result.ok
        /\ held.variant = "base62" => (call.id = held.id /\ call.result.ok)

\* C20 as stated: timestamp(id) is the first 48 bits of the UUID parse(id)
\* returns, fails exactly when parse(id) fails, reads nothing but the id, and
\* for a freshly generated id it is exactly the clock reading of the generation.
C20_TimestampExact ==
    /\ TimestampOfParse
    /\ (call.op = "timestamp" /\ held.variant = "base62") => call.result.value = held.t

\* C20 as amended: for a freshly generated id timestamp(id) is the clock
\* reading of the generation modulo 2^48.
C20_TimestampMod48 ==
    /\ TimestampOfParse
    /\ (call.op = "timestamp" /\ held.variant = "base62") =>
          call.result.value = Low48(held.t)

C20_Witness ==
    /\ call.op = "timestamp"
    /\ held.variant = "base62"
    /\ held.t = <<1, 2, 3, 4, 5, 6, 7>>
    /\ call.result.ok
    /\ call.result.value = <<2, 3, 4, 5, 6, 7>>

\* the symbols a Base32 rendering may hold: digits and upper-case letters other
\* than I, L, O, U
Base32Symbols == (Range(DIGITS) \cup Range(UPPER)) \ {"I", "L", "O", "U"}

\* the symbols a Base62 rendering may hold
Base62Symbols == Range(DIGITS) \cup Range(UPPER) \cup Range(LOWER)

\* the text of id after the first Len(p) + 1 characters
AfterPrefix(id, p) == SubSeq(id, Len(p) + 2, Len(id))

\* id is p, an underscore and a non-empty string over symbols, which is the
\* rendering of uuid, and the last underscore of id is the one after p
WellFormedId(id, p, symbols, rendering) ==
    /\ Len(id) >= Len(p) + 2
    /\ SubSeq(id, 1, Len(p)) = p
    /\ id[Len(p) + 1] = "_"
    /\ \A i \in (Len(p) + 2)..Len(id) : id[i] \in symbols /\ id[i] # "_"
    /\ AfterPrefix(id, p) = rendering
    /\ LastSep(id) = Len(p) + 1

\* C22: every id generate / generatePrefixedId(p) returns is p, "_" and the
\* non-empty rendering of the generated UUID, which holds only symbols of the
\* variant's alphabet and no underscore, so the last underscore of the id is
\* the separator.
C22_Format ==
    /\ (call.op = "generate" /\ call.result.ok) =>
          WellFormedId(call.result.value, call.prefix, Base62Symbols,
                       uuidToBase62(call.uuid))
    /\ (call.op = "generatePrefixedId" /\ call.result.ok) =>
          WellFormedId(call.result.value, call.prefix, Base32Symbols,
                       uuidToCrockfordBase32(call.uuid))

C22_Witness ==
    /\ call.op = "generatePrefixedId"
    /\ call.result.ok
    /\ call.prefix = <<"a", "_">>
    /\ call.t = <<255, 255, 255, 255, 255, 255>>
    /\ Len(call.result.value) = 29
    /\ LastSep(call.result.value) = 3

\* the integer a canonical UUID string stands for
UuidInteger(uuid) == BigFromHex(stripHyphens(uuid))

\* C23: whenever parse succeeds the integer of the returned uuid is the integer
\* the codec decodes from the encoded part, and an encoded part whose value is
\* 2^128 or more is rejected with "Failed to parse ID".
C23_NoTruncation ==
    /\ (call.op = "parse" /\ call.result.ok) =>
          UuidInteger(call.result.value.uuid) = decodeBase62(AfterLast(call.id)).value
    /\ (call.op = "parsePrefixedId" /\ call.result.ok) =>
          UuidInteger(call.result.value.uuid)
              = decodeCrockfordBase32(AfterFirst(call.id)).value
    /\ (call.op = "parse" /\ HasUnderscore(call.id)
            /\ decodeBase62(AfterLast(call.id)).ok
            /\ Len(decodeBase62(AfterLast(call.id)).value) > 16) =>
          (~call.result.ok /\ Head(call.result.error) = "Failed to parse ID: ")
    /\ (call.op = "parsePrefixedId" /\ HasUnderscore(call.id)
            /\ decodeCrockfordBase32(AfterFirst(call.id)).ok
            /\ Len(decodeCrockfordBase32(AfterFirst(call.id)).value) > 16) =>
          (~call.result.ok /\ Head(call.result.error) = "Failed to parse ID: ")

\* C30: the "Invalid UUID" check of parse and of parsePrefixedId never fails:
\* the string built from any integer the codec decodes has the UUID shape, and
\* no error carries "Invalid UUID".
C30_InvalidUuidUnreachable ==
    /\ call.op \in {"parse", "parsePrefixedId"} =>
          \A i \in 1..Len(call.result.error) : call.result.error[i] # "Invalid UUID: "
    /\ (call.op = "parse" /\ HasUnderscore(call.id)
            /\ decodeBase62(AfterLast(call.id)).ok) =>
          isValidUUID(base62ToUUID(AfterLast(call.id)).value)
    /\ (call.op = "parsePrefixedId" /\ HasUnderscore(call.id)
            /\ decodeCrockfordBase32(AfterFirst(call.id)).ok) =>
          isValidUUID(crockfordBase32ToUuid(AfterFirst(call.id)).value)
    /\ (call.op = "decodeBase62" /\ call.result.ok) =>
          isValidUUID(base62ToUUID(call.str).value)
    /\ (call.op = "decodeCrockfordBase32" /\ call.result.ok) =>
          isValidUUID(crockfordBase32ToUuid(call.str).value)

C30_Witness ==
    /\ call.op = "parsePrefixedId"
    /\ Len(call.id) = 28
    /\ call.id[3] = "8"
    /\ call.id[28] = "1"
    /\ call.result.ok
    /\ Len(decodeCrockfordBase32(AfterFirst(call.id)).value) = 17
    /\ isValidUUID(call.result.value.uuid)

\* C27: Base62 variant. For an id whose encoded part or whose prefix is empty
\* parse throws "Failed to parse ID" and validate returns false; parse of the
\* empty string throws; none of them yields a UUID.
C27_EmptyParts62 ==
    /\ (call.op = "parse" /\ HasUnderscore(call.id)
            /\ (AfterLast(call.id) = <<>> \/ BeforeLast(call.id) = <<>>)) =>
          /\ ~call.result.ok
          /\ Head(call.result.error) = "Failed to parse ID: "
          /\ call.result.value = <<>>
    /\ (call.op = "validate" /\ HasUnderscore(call.id)
            /\ (AfterLast(call.id) = <<>> \/ BeforeLast(call.id) = <<>>)) =>
          call.result.value = FALSE
    /\ (call.op = "parse" /\ call.id = <<>>) =>
          (~call.result.ok /\ call.result.value = <<>>)

C27_Witness ==
    /\ call.op = "parse"
    /\ Len(call.id) = 24
    /\ BeforeLast(call.id) = SubSeq(call.id, 1, 23)
    /\ call.id[1] = "l"
    /\ call.result.error = <<"Failed to parse ID: ", "Empty base62 part">>

\* the reads of the clock and of the random source among the steps of a call
PlatformReads(calls) ==
    { i \in 1..Len(calls) :
        calls[i] \in {"Date.now", "crypto.getRandomValues",
                      "globalThis.crypto.getRandomValues"} }

\* C29: Base62 variant. generate validates the prefix before it reads the
\* clock or draws random bytes: a call failing with "invalid prefix" has read
\* neither, and every call that drew its random bytes returns an id.
C29_ValidateFirst ==
    call.op = "generate" =>
        /\ call.result.calls[1] = "validatePrefix"
        /\ ~MatchesStrictRule(call.prefix) =>
              /\ ~call.result.ok
              /\ Head(call.result.error) = "invalid prefix: "
              /\ call.result.calls = <<"validatePrefix">>
        /\ (~call.result.ok /\ Head(call.result.error) = "invalid prefix: ") =>
              PlatformReads(call.result.calls) = {}
        /\ (\E i \in PlatformReads(call.result.calls) :
                call.result.calls[i] # "Date.now") =>
              (call.result.ok /\ Len(call.result.value) > Len(call.prefix) + 1)

C29_Witness ==
    /\ call.op = "generate"
    /\ call.prefix = <<"A">>
    /\ call.env = EnvOk
    /\ ~call.result.ok
    /\ call.result.calls = <<"validatePrefix">>

\* s has no zero symbol in front that could be dropped
NoRedundantZero(s) == s = <<"0">> \/ s[1] # "0"

\* C25: encode gives the shortest rendering: "0" for 0 and no zero symbol in
\* front for n > 0. For a non-empty string s that decode accepts,
\* encode(decode(s)) is never longer than s and equals s exactly when s has no
\* redundant leading zero and (Base32) is upper-case without I, L, O.
C25_Shortest ==
    /\ call.op = "encodeBase62" =>
          IF BigIsZero(call.num) THEN call.result.value = <<"0">>
          ELSE call.result.value # <<>> /\ call.result.value[1] # BASE62_ALPHABET[1]
    /\ call.op = "encodeCrockfordBase32" =>
          IF BigIsZero(call.num) THEN call.result.value = <<"0">>
          ELSE call.result.value # <<>> /\ call.result.value[1] # CROCKFORD_ALPHABET[1]
    /\ (call.op = "decodeBase62" /\ call.result.ok /\ call.str # <<>>) =>
          LET again == encodeBase62(call.result.value)
          IN  /\ Len(again) <= Len(call.str)
              /\ (again = call.str) <=> NoRedundantZero(call.str)
    /\ (call.op = "decodeCrockfordBase32" /\ call.result.ok /\ call.str # <<>>) =>
          LET again == encodeCrockfordBase32(call.result.value)
          IN  /\ Len(again) <= Len(call.str)
              /\ (again = call.str) <=>
                    /\ NoRedundantZero(call.str)
                    /\ call.str = UpperCased(call.str)
                    /\ \A i \in 1..Len(call.str) : call.str[i] \notin {"I", "L", "O"}

C25_Witness ==
    /\ call.op = "decodeCrockfordBase32"
    /\ call.str = <<"0", "a">>
    /\ call.result.ok
    /\ encodeCrockfordBase32(call.result.value) = <<"A">>

\* C26: Base32 variant. For every canonical UUID string u, also one whose
\* leading bytes are zero, crockfordBase32ToUuid(uuidToCrockfordBase32(u)) is u
\* in lower case, and the rendering has at most 26 symbols, fewer than the
\* 32 hex digits of u.
C26_UuidRoundTrip32 ==
    call.op = "uuidToCrockfordBase32" =>
        LET back == crockfordBase32ToUuid(call.result.value)
        IN  /\ isValidUUID(call.str)
            /\ back.ok
            /\ back.value = LowerCased(call.str)
            /\ Len(call.result.value) <= 26
            /\ Len(call.result.value) < Len(stripHyphens(call.str))

C26_Witness ==
    /\ call.op = "uuidToCrockfordBase32"
    /\ call.str[1] = "0"
    /\ SubSeq(call.str, 35, 36) = <<"F", "F">>
    /\ call.result.value = <<"7", "Z">>
    /\ crockfordBase32ToUuid(call.result.value).value[36] = "f"

Malformed32(id) ==
    \/ ~HasUnderscore(id)
    \/ BeforeFirst(id) = <<>>
    \/ ~decodeCrockfordBase32(AfterFirst(id)).ok
    \/ Len(decodeCrockfordBase32(AfterFirst(id)).value) > 16

\* the handlers registered for the prefix of id
HandlersFor(id, handlers) == { h \in handlers : h.prefix = BeforeFirst(id) }

\* C21: handleIdByPrefix(id, handlers) returns null, and does not throw, for a
\* malformed id and for a prefix without a handler; otherwise the handler of
\* the prefix is invoked once with the parsed UUID and its result is returned,
\* or its error propagates as thrown.
C21_Dispatch ==
    call.op = "handleIdByPrefix" =>
        IF Malformed32(call.id) \/ HandlersFor(call.id, call.handlers) = {}
        THEN /\ call.result.ok
             /\ call.result.value = Null
             /\ call.result.calls = <<"parsePrefixedId">>
        ELSE LET handler == CHOOSE h \in HandlersFor(call.id, call.handlers) : TRUE
             IN  /\ call.result.calls = <<"parsePrefixedId", "handler">>
                 /\ IF handler.kind = "throw"
                    THEN ~call.result.ok /\ call.result.error = <<handler.text>>
                    ELSE /\ call.result.ok
                         /\ call.result.value =
                               StringValue(<<handler.text>>
                                   \o crockfordBase32ToUuid(AfterFirst(call.id)).value)

\* C28: no operation changes an alphabet or a decode table, and parse and
\* validate depend on nothing but their arguments and the tables: they read
\* neither the clock nor the random source, and whatever was called before, the
\* result of a call is the one its arguments and the tables determine.
C28_Frame ==
    [][/\ tables' = tables
       /\ call'.op \in {"parse", "validate", "parsePrefixedId", "validatePrefixedId"} =>
             PlatformReads(call'.result.calls) = {}
       /\ call'.op = "parse" => call'.result = parse(call'.id)
       /\ call'.op = "parsePrefixedId" => call'.result = parsePrefixedId(call'.id)
       /\ call'.op = "validate" =>
             call'.result.value = (parse(call'.id).ok /\
                 (call'.prefix = Undefined \/ parse(call'.id).value.prefix = call'.prefix))
      ]_vars

C28_Witness ==
    /\ call.op = "parse"
    /\ held.variant = "base62"
    /\ call.id = held.id
    /\ call.result.ok
    /\ call.result = parse(held.id)
    /\ tables = <<CrockfordAlphabet, CrockfordDecodeMap, Base62Alphabet, Base62DecodeMap>>

====
